---------------------------- MODULE Spec2Model ----------------------------
(***************************************************************************)
(* A model of the ebiten-exercises demos: basic-input, polygon-making,     *)
(* gg-shapes (src/unnamed/part_000), connect-lines, starfield and turns    *)
(* (src/turns/main.go and src/unnamed/part_001).                           *)
(*                                                                         *)
(* Every demo is one Game object driven by the host engine's frame loop:   *)
(* the host polls the input, calls Update and then Draw.  The variable     *)
(* demo says which program is running; g is its Game object.  Go slices    *)
(* are sequences, so the Go index i is position i + 1 here; the index      *)
(* fields (activeSprite, activePolygon, activeShape, selected, blk1, blk2) *)
(* keep their Go value.  theta is counted in units of rotateFactor.        *)
(***************************************************************************)
EXTENDS Integers, Sequences, FiniteSets, TLC

VARIABLES
    demo,           \* which program's main is running
    g,              \* the program's Game object
    in,             \* the input state the host polled for the current frame
    keyDurations,   \* inpututil: frames each edge-triggered input has been down
    pc,             \* where main / the host loop stands
    frames,         \* number of Update calls made so far
    ret,            \* what the last Update call returned
    runErr,         \* what ebiten.RunGame (or the image load) returned to main
    stdout,         \* what main printed
    exitCode,       \* the process exit status, -1 while it runs
    screen,         \* what the last Draw call put on the screen
    edges,          \* history: frames so far in which Space went down
    moves,          \* history: direct calls of Game.MoveView so far
    clicks          \* history: frames so far in which the left button went down

vars == <<demo, g, in, keyDurations, pc, frames, ret, runErr, stdout,
          exitCode, screen, edges, moves, clicks>>

---------------------------------------------------------------------------
(* Program constants.                                                      *)

screenWidth == 640
screenHeight == 480
translateFactor == 10
rotateFactor == 1
translate == 1
translateNear == 3
translateFar == 1
blockSize == 3
starRadius == 3

(* Bounds of the model.                                                    *)

MaxFrames == 1        \* frames run in the demos with entities
MaxTurnFrames == 4    \* frames run in the turns demo
MaxPressed == 2       \* keys held down at once in one frame
GopherW == 240        \* width of the image loaded from gopher.png
GopherH == 300        \* height of the image loaded from gopher.png
MaxBlocks == 2        \* blocks created by connect-lines
MaxNearStars == 1     \* near stars created by starfield
MaxFarStars == 1      \* far stars created by starfield

Demos == {"basic-input", "polygon-making", "gg-shapes", "connect-lines",
          "starfield", "turns", "turns-tps"}

ErrCleanExit == "ErrCleanExit"

Abs(n) == IF n < 0 THEN -n ELSE n

---------------------------------------------------------------------------
(* The host's input state and inpututil.                                   *)

NoInput == [keys |-> {}, buttons |-> {}, cx |-> 0, cy |-> 0]

IsKeyPressed(i, k) == k \in i.keys

\* inpututil counts, before every Update, the frames an input has been down;
\* the count saturates at 2 here because only "= 1" is ever read.
NextDuration(d, down) == IF down THEN (IF d >= 2 THEN 2 ELSE d + 1) ELSE 0

EdgeInputs == {"Space", "F", "MouseButtonLeft", "MouseButtonRight"}

InputDown(i, k) == k \in i.keys \/ k \in i.buttons

UpdateDurations(dur, i) ==
    [k \in EdgeInputs |-> NextDuration(dur[k], InputDown(i, k))]

IsKeyJustPressed(dur, k) == dur[k] = 1

IsMouseButtonJustPressed(dur, b) == dur[b] = 1

---------------------------------------------------------------------------
(* Images.  An image is a record with its size and what it was made from;  *)
(* Alpha gives the alpha channel of a pixel as 0 (transparent) or 255.     *)

\* gopher.png is not part of the repository: a GopherW x GopherH bitmap
\* with an opaque diamond and transparent corners stands for it.
GopherImage == [kind |-> "gopher", w |-> GopherW, h |-> GopherH]

GopherAlpha(img, px, py) ==
    IF Abs(2 * px + 1 - img.w) * img.h + Abs(2 * py + 1 - img.h) * img.w
           <= img.w * img.h
    THEN 255 ELSE 0

\* 100 * cos(2 * pi * i / num) and 100 * sin(2 * pi * i / num), rounded, for
\* num = 1 .. 10 (row num, entry i + 1): math.Cos and math.Sin at the angles
\* genPolygon asks for, to two decimals.
CosTable ==
    << <<100>>,
       <<100, -100>>,
       <<100, -50, -50>>,
       <<100, 0, -100, 0>>,
       <<100, 31, -81, -81, 31>>,
       <<100, 50, -50, -100, -50, 50>>,
       <<100, 62, -22, -90, -90, -22, 62>>,
       <<100, 71, 0, -71, -100, -71, 0, 71>>,
       <<100, 77, 17, -50, -94, -94, -50, 17, 77>>,
       <<100, 81, 31, -31, -81, -100, -81, -31, 31, 81>> >>

SinTable ==
    << <<0>>,
       <<0, 0>>,
       <<0, 87, -87>>,
       <<0, 100, 0, -100>>,
       <<0, 95, 59, -59, -95>>,
       <<0, 87, 87, 0, -87, -87>>,
       <<0, 78, 97, 43, -43, -97, -78>>,
       <<0, 71, 100, 71, 0, -71, -100, -71>>,
       <<0, 64, 98, 87, 34, -34, -87, -98, -64>>,
       <<0, 59, 95, 95, 59, 0, -59, -95, -95, -59>> >>

Cos100(i, num) == CosTable[num][i + 1]

Sin100(i, num) == SinTable[num][i + 1]

Uint16(n) == n % 65536

\* Vertex coordinates are kept in hundredths of a pixel.
Vertex(dstX, dstY) ==
    [DstX |-> dstX, DstY |-> dstY, SrcX |-> 0, SrcY |-> 0, ColorA |-> 1]

genTriangle(width, height) ==
    [vs |-> << Vertex(0, 100 * height),
               Vertex(50 * width, 0),
               Vertex(100 * width, 100 * height) >>,
     indices |-> <<0, 1, 2>>]


RECURSIVE FanIndicesNoWrap(_, _)
\* FanIndices whose second corner is not taken modulo num
FanIndicesNoWrap(i, num) ==
    IF i >= num THEN << >>
    ELSE <<Uint16(i), Uint16(i + 1), Uint16(num)>>
             \o FanIndicesNoWrap(i + 1, num)

RECURSIVE FanIndices(_, _)
\* the indices appended by iterations i .. num - 1 of genPolygon's second loop
FanIndices(i, num) ==
    IF i >= num THEN << >>
    ELSE <<Uint16(i), Uint16(i + 1) % Uint16(num), Uint16(num)>>
             \o FanIndices(i + 1, num)

genPolygon(radius, num) ==
    [vs |-> [k \in 1..(num + 1) |->
                IF k <= num
                THEN Vertex(radius * Cos100(k - 1, num) + 100 * radius,
                            radius * Sin100(k - 1, num) + 100 * radius)
                ELSE Vertex(100 * radius, 100 * radius)],
     indices |-> FanIndices(0, num)]

\* (b - a) x (c - a)
Cross(a, b, c) ==
    (b.DstX - a.DstX) * (c.DstY - a.DstY) - (b.DstY - a.DstY) * (c.DstX - a.DstX)

\* DrawTriangles fills the pixels whose centre lies in a triangle.
InTriangle(a, b, c, px, py) ==
    LET p == [DstX |-> 100 * px + 50, DstY |-> 100 * py + 50]
        d1 == Cross(a, b, p)
        d2 == Cross(b, c, p)
        d3 == Cross(c, a, p)
    IN  (d1 >= 0 /\ d2 >= 0 /\ d3 >= 0) \/ (d1 <= 0 /\ d2 <= 0 /\ d3 <= 0)

TrianglesAlpha(img, px, py) ==
    IF \E t \in 0..((Len(img.indices) \div 3) - 1) :
           LET a == img.vs[img.indices[3 * t + 1] + 1]
               b == img.vs[img.indices[3 * t + 2] + 1]
               c == img.vs[img.indices[3 * t + 3] + 1]
           IN  a.ColorA > 0 /\ InTriangle(a, b, c, px, py)
    THEN img.a ELSE 0

\* emptyImage scaled to w x h and tinted: every pixel has the colour's alpha.
FilledAlpha(img, px, py) == img.a

\* gg's DrawCircle(r, r, r) filled.
CircleAlpha(img, px, py) ==
    IF (2 * px + 1 - img.w) * (2 * px + 1 - img.w)
         + (2 * py + 1 - img.h) * (2 * py + 1 - img.h) <= img.w * img.w
    THEN img.a ELSE 0

Alpha(img, px, py) ==
    CASE img.kind = "gopher" -> GopherAlpha(img, px, py)
      [] img.kind = "triangles" -> TrianglesAlpha(img, px, py)
      [] img.kind = "filled" -> FilledAlpha(img, px, py)
      [] img.kind = "circle" -> CircleAlpha(img, px, py)

\* ebiten's Image.At: the pixel's alpha, and the zero colour outside the image.
At(img, px, py) ==
    IF px < 0 \/ py < 0 \/ px >= img.w \/ py >= img.h THEN 0
    ELSE Alpha(img, px, py)

---------------------------------------------------------------------------
(* Drawing.  DrawImage with a GeoM that translates by pre (in half pixels),*)
(* rotates by theta and translates by post puts image pixel (px, py), when *)
(* theta = 0, on the screen pixel (px + pre/2 + post).                     *)

Blit(img, pre2x, pre2y, theta, postx, posty) ==
    [img |-> img, pre2x |-> pre2x, pre2y |-> pre2y, theta |-> theta,
     postx |-> postx, posty |-> posty]

\* the alpha an unrotated blit puts on screen pixel (x, y)
BlitAlphaAt(b, x, y) ==
    At(b.img, x - b.postx + ((1 - b.pre2x) \div 2),
              y - b.posty + ((1 - b.pre2y) \div 2))

OnScreen(x, y) == x >= 0 /\ x < screenWidth /\ y >= 0 /\ y < screenHeight

---------------------------------------------------------------------------
(* basic-input: Sprite.                                                    *)

Sprite(id, img, x, y) == [id |-> id, img |-> img, x |-> x, y |-> y]

SpriteIn(s, x, y) == At(s.img, x - s.x, y - s.y) > 0

\* SpriteMoveBy without the clamp at the right edge
SpriteMoveByNoRightEdge(s, x, y) ==
    LET h == s.img.h
        x1 == s.x + x
        y1 == s.y + y
        x2 == IF x1 < 0 THEN 0 ELSE x1
        y2 == IF y1 < 0 THEN 0 ELSE y1
        y3 == IF y2 > screenHeight - h THEN screenHeight - h ELSE y2
    IN  [s EXCEPT !.x = x2, !.y = y3]

SpriteMoveBy(s, x, y) ==
    LET w == s.img.w
        h == s.img.h
        x1 == s.x + x
        y1 == s.y + y
        x2 == IF x1 < 0 THEN 0 ELSE x1
        x3 == IF x2 > screenWidth - w THEN screenWidth - w ELSE x2
        y2 == IF y1 < 0 THEN 0 ELSE y1
        y3 == IF y2 > screenHeight - h THEN screenHeight - h ELSE y2
    IN  [s EXCEPT !.x = x3, !.y = y3]

SpriteDraw(s, dx, dy) == Blit(s.img, 0, 0, 0, s.x + dx, s.y + dy)

---------------------------------------------------------------------------
(* polygon-making: Polygon.                                                *)

NewPolygon(id, x, y, theta, radius, sides, clrA) ==
    LET m == IF sides = 3 THEN genTriangle(radius * 2, radius * 2)
             ELSE genPolygon(radius, sides)
    IN  [id |-> id, x |-> x, y |-> y, radius |-> radius, theta |-> theta,
         img |-> [kind |-> "triangles", w |-> radius * 2, h |-> radius * 2,
                  vs |-> m.vs, indices |-> m.indices, a |-> clrA]]


\* PolygonIn that reads the bitmap as if its corner stood on (p.x, p.y)
PolygonInFromCorner(p, x, y) == At(p.img, x - p.x, y - p.y) > 0

PolygonIn(p, x, y) == At(p.img, x - p.x + p.radius, y - p.y + p.radius) > 0

\* PolygonMoveBy with the bounds of a top-left anchored entity
PolygonMoveByTopLeft(p, x, y) ==
    LET x1 == p.x + x
        y1 == p.y + y
        x2 == IF x1 < 0 THEN 0 ELSE x1
        x3 == IF x2 > screenWidth - 2 * p.radius THEN screenWidth - 2 * p.radius ELSE x2
        y2 == IF y1 < 0 THEN 0 ELSE y1
        y3 == IF y2 > screenHeight - 2 * p.radius THEN screenHeight - 2 * p.radius ELSE y2
    IN  [p EXCEPT !.x = x3, !.y = y3]

PolygonMoveBy(p, x, y) ==
    LET x1 == p.x + x
        y1 == p.y + y
        x2 == IF x1 < 0 + p.radius THEN 0 + p.radius ELSE x1
        x3 == IF x2 > screenWidth - p.radius THEN screenWidth - p.radius ELSE x2
        y2 == IF y1 < 0 + p.radius THEN 0 + p.radius ELSE y1
        y3 == IF y2 > screenHeight - p.radius THEN screenHeight - p.radius ELSE y2
    IN  [p EXCEPT !.x = x3, !.y = y3]

PolygonDraw(p) == Blit(p.img, -p.img.w, -p.img.h, p.theta, p.x, p.y)

---------------------------------------------------------------------------
(* gg-shapes: Shape.                                                       *)

genCircle(r, clrA) == [kind |-> "circle", w |-> r * 2, h |-> r * 2, a |-> clrA]

genRectangle(w, h, clrA) == [kind |-> "filled", w |-> w, h |-> h, a |-> clrA]

\* gg's DrawRegularPolygon(n, r, r, r, 0) for odd n: corner i stands at the
\* angle 2 * pi * i / n - pi / 2 around (r, r); the filled polygon is the fan
\* of its corners around the centre.
ShapesGenPolygon(n, r, clrA) ==
    [kind |-> "triangles", w |-> r * 2, h |-> r * 2,
     vs |-> [k \in 1..(n + 1) |->
                IF k <= n
                THEN Vertex(100 * r + r * Sin100(k - 1, n),
                            100 * r - r * Cos100(k - 1, n))
                ELSE Vertex(100 * r, 100 * r)],
     indices |-> FanIndices(0, n), a |-> clrA]

NewShape(id, x, y, theta, img) ==
    [id |-> id, x |-> x, y |-> y, theta |-> theta, img |-> img]

ShapeIn(s, x, y) == At(s.img, x - s.x + s.img.w, y - s.y + s.img.h) > 0

ShapeMoveBy(s, x, y) ==
    LET w == s.img.w
        h == s.img.h
        x1 == s.x + x
        y1 == s.y + y
        x2 == IF x1 < 0 + w THEN 0 + w ELSE x1
        x3 == IF x2 > screenWidth - w THEN screenWidth - w ELSE x2
        y2 == IF y1 < 0 + h THEN 0 + h ELSE y1
        y3 == IF y2 > screenHeight - h THEN screenHeight - h ELSE y2
    IN  [s EXCEPT !.x = x3, !.y = y3]

ShapeDraw(s) == Blit(s.img, -s.img.w, -s.img.h, s.theta, s.x, s.y)

---------------------------------------------------------------------------
(* connect-lines: Block.                                                   *)

NewBlock(id, x, y, size, clrA) ==
    [id |-> id, x |-> x, y |-> y, size |-> size, clr |-> clrA,
     img |-> [kind |-> "filled", w |-> size, h |-> size, a |-> clrA]]

BlockIn(b, x, y) ==
    IF x >= b.x /\ x <= b.x + b.size /\ y >= b.y /\ y <= b.y + b.size
    THEN TRUE ELSE FALSE

BlockMove(b, x, y) ==
    LET x1 == b.x + x
        y1 == b.y + y
        x2 == IF x1 + b.size > screenWidth THEN screenWidth - b.size ELSE x1
        x3 == IF x2 < 0 THEN 0 ELSE x2
        y2 == IF y1 + b.size > screenHeight THEN screenHeight - b.size ELSE y1
        y3 == IF y2 < 0 THEN 0 ELSE y2
    IN  [b EXCEPT !.x = x3, !.y = y3]

BlockDraw(b) == Blit(b.img, 0, 0, 0, b.x, b.y)

---------------------------------------------------------------------------
(* starfield: Star.                                                        *)

NewStar(x, y, radius, clrA) ==
    [x |-> x, y |-> y, radius |-> radius,
     img |-> [kind |-> "filled", w |-> radius * 2, h |-> radius * 2, a |-> clrA]]


\* StarMoveBy that stops a star at the edge it reaches
StarMoveByClamped(s, x, y) ==
    LET x1 == s.x + x
        y1 == s.y + y
        x2 == IF x1 > screenWidth THEN screenWidth ELSE x1
        x3 == IF x2 < 0 THEN 0 ELSE x2
        y2 == IF y1 > screenHeight THEN screenHeight ELSE y1
        y3 == IF y2 < 0 THEN 0 ELSE y2
    IN  [s EXCEPT !.x = x3, !.y = y3]

StarMoveBy(s, x, y) ==
    LET x1 == s.x + x
        y1 == s.y + y
        x2 == IF x1 > screenWidth THEN 0 ELSE x1
        x3 == IF x2 < 0 THEN screenWidth ELSE x2
        y2 == IF y1 > screenHeight THEN 0 ELSE y1
        y3 == IF y2 < 0 THEN screenHeight ELSE y2
    IN  [s EXCEPT !.x = x3, !.y = y3]

StarDraw(s) == Blit(s.img, 0, 0, 0, s.x, s.y)

---------------------------------------------------------------------------
(* Game.Update and Game.Draw of each demo.  Update(g, i, dur) is the Game  *)
(* after the call and the error returned, for the polled input i and the   *)
(* inpututil durations dur of this frame.                                  *)

Reply(game, err) == [g |-> game, err |-> err]

(* basic-input *)


\* SpriteClick that scans the sprites from the first to the last
SpriteClickBottomUp(s, i, cx, cy, active) ==
    LET hits == {k \in 0..(Len(s) - 1) : SpriteIn(s[k + 1], cx, cy)}
    IN  IF hits = {} THEN active
        ELSE CHOOSE k \in hits : \A j \in hits : k <= j

RECURSIVE SpriteClick(_, _, _, _, _)
\* the loop "for i := len - 1; i >= 0; i--" of a left click, from index i on
SpriteClick(s, i, cx, cy, active) ==
    IF i < 0 THEN active
    ELSE IF SpriteIn(s[i + 1], cx, cy) THEN i
    ELSE SpriteClick(s, i - 1, cx, cy, active)

BasicInputKeyUp(game, i) ==
    IF IsKeyPressed(i, "Up")
    THEN [game EXCEPT !.s[game.activeSprite + 1] = SpriteMoveBy(@, 0, -translateFactor)]
    ELSE game

BasicInputKeyDown(game, i) ==
    IF IsKeyPressed(i, "Down")
    THEN [game EXCEPT !.s[game.activeSprite + 1] = SpriteMoveBy(@, 0, translateFactor)]
    ELSE game

BasicInputKeyLeft(game, i) ==
    IF IsKeyPressed(i, "Left")
    THEN [game EXCEPT !.s[game.activeSprite + 1] = SpriteMoveBy(@, -translateFactor, 0)]
    ELSE game

BasicInputKeyRight(game, i) ==
    IF IsKeyPressed(i, "Right")
    THEN [game EXCEPT !.s[game.activeSprite + 1] = SpriteMoveBy(@, translateFactor, 0)]
    ELSE game

BasicInputLeftClick(game, i, dur) ==
    IF IsMouseButtonJustPressed(dur, "MouseButtonLeft")
    THEN [game EXCEPT !.activeSprite =
              SpriteClick(game.s, Len(game.s) - 1, i.cx, i.cy, @)]
    ELSE game


\* BasicInputUpdate that handles Down before Up and Right before Left
BasicInputUpdateDownFirst(g0, i, dur) ==
    LET g1 == BasicInputKeyDown(g0, i)
        g2 == BasicInputKeyUp(g1, i)
        g3 == BasicInputKeyRight(g2, i)
        g4 == BasicInputKeyLeft(g3, i)
        g5 == BasicInputLeftClick(g4, i, dur)
    IN  Reply(g5, IF IsKeyPressed(i, "Escape") THEN ErrCleanExit ELSE "nil")

BasicInputUpdate(g0, i, dur) ==
    LET g1 == BasicInputKeyUp(g0, i)
        g2 == BasicInputKeyDown(g1, i)
        g3 == BasicInputKeyLeft(g2, i)
        g4 == BasicInputKeyRight(g3, i)
        g5 == BasicInputLeftClick(g4, i, dur)
    IN  Reply(g5, IF IsKeyPressed(i, "Escape") THEN ErrCleanExit ELSE "nil")

BasicInputDraw(game) ==
    [text |-> <<"Active sprite: ", game.s[game.activeSprite + 1].id>>,
     blits |-> [k \in 1..Len(game.s) |-> SpriteDraw(game.s[k], 0, 0)]]

(* polygon-making *)

RECURSIVE PolygonClick(_, _, _, _, _)
\* the loop "for i := len - 1; i >= 0; i--" of a left click, from index i on
PolygonClick(p, i, cx, cy, active) ==
    IF i < 0 THEN active
    ELSE IF PolygonIn(p[i + 1], cx, cy) THEN i
    ELSE PolygonClick(p, i - 1, cx, cy, active)

PolygonKeyUp(game, i) ==
    IF IsKeyPressed(i, "Up") \/ IsKeyPressed(i, "W")
    THEN [game EXCEPT !.p[game.activePolygon + 1] = PolygonMoveBy(@, 0, -translateFactor)]
    ELSE game

PolygonKeyDown(game, i) ==
    IF IsKeyPressed(i, "Down") \/ IsKeyPressed(i, "S")
    THEN [game EXCEPT !.p[game.activePolygon + 1] = PolygonMoveBy(@, 0, translateFactor)]
    ELSE game

PolygonKeyLeft(game, i) ==
    IF IsKeyPressed(i, "Left") \/ IsKeyPressed(i, "A")
    THEN [game EXCEPT !.p[game.activePolygon + 1] = PolygonMoveBy(@, -translateFactor, 0)]
    ELSE game

PolygonKeyRight(game, i) ==
    IF IsKeyPressed(i, "Right") \/ IsKeyPressed(i, "D")
    THEN [game EXCEPT !.p[game.activePolygon + 1] = PolygonMoveBy(@, translateFactor, 0)]
    ELSE game

PolygonKeyQ(game, i) ==
    IF IsKeyPressed(i, "Q")
    THEN [game EXCEPT !.p[game.activePolygon + 1].theta = @ - rotateFactor]
    ELSE game

PolygonKeyE(game, i) ==
    IF IsKeyPressed(i, "E")
    THEN [game EXCEPT !.p[game.activePolygon + 1].theta = @ + rotateFactor]
    ELSE game

PolygonKeySpace(game, dur) ==
    IF IsKeyJustPressed(dur, "Space")
    THEN [game EXCEPT !.activePolygon = (@ + 1) % Len(game.p)]
    ELSE game

\* the window's fullscreen state follows g.fullscreen (ebiten.SetFullscreen)
PolygonKeyF(game, dur) ==
    IF IsKeyJustPressed(dur, "F")
    THEN [game EXCEPT !.fullscreen = ~@]
    ELSE game

PolygonLeftClick(game, i, dur) ==
    IF IsMouseButtonJustPressed(dur, "MouseButtonLeft")
    THEN [game EXCEPT !.activePolygon =
              PolygonClick(game.p, Len(game.p) - 1, i.cx, i.cy, @)]
    ELSE game


\* PolygonUpdate that handles Space before the movement and rotation keys
PolygonUpdateSpaceFirst(g0, i, dur) ==
    LET g1 == PolygonKeySpace(g0, dur)
        g2 == PolygonKeyUp(g1, i)
        g3 == PolygonKeyDown(g2, i)
        g4 == PolygonKeyLeft(g3, i)
        g5 == PolygonKeyRight(g4, i)
        g6 == PolygonKeyQ(g5, i)
        g7 == PolygonKeyE(g6, i)
        g8 == PolygonKeyF(g7, dur)
        g9 == PolygonLeftClick(g8, i, dur)
    IN  Reply(g9, IF IsKeyPressed(i, "Escape") THEN ErrCleanExit ELSE "nil")

PolygonUpdate(g0, i, dur) ==
    LET g1 == PolygonKeyUp(g0, i)
        g2 == PolygonKeyDown(g1, i)
        g3 == PolygonKeyLeft(g2, i)
        g4 == PolygonKeyRight(g3, i)
        g5 == PolygonKeyQ(g4, i)
        g6 == PolygonKeyE(g5, i)
        g7 == PolygonKeySpace(g6, dur)
        g8 == PolygonKeyF(g7, dur)
        g9 == PolygonLeftClick(g8, i, dur)
    IN  Reply(g9, IF IsKeyPressed(i, "Escape") THEN ErrCleanExit ELSE "nil")

PolygonGameDraw(game) ==
    [text |-> <<"Active polygon: ", game.p[game.activePolygon + 1].id>>,
     blits |-> [k \in 1..Len(game.p) |-> PolygonDraw(game.p[k])]]

(* gg-shapes *)

RECURSIVE ShapeClick(_, _, _, _, _)
\* the loop "for i := len - 1; i >= 0; i--" of a left click, from index i on
ShapeClick(s, i, cx, cy, active) ==
    IF i < 0 THEN active
    ELSE IF ShapeIn(s[i + 1], cx, cy) THEN i
    ELSE ShapeClick(s, i - 1, cx, cy, active)

ShapesKeyUp(game, i) ==
    IF IsKeyPressed(i, "Up") \/ IsKeyPressed(i, "W")
    THEN [game EXCEPT !.s[game.activeShape + 1] = ShapeMoveBy(@, 0, -translateFactor)]
    ELSE game

ShapesKeyDown(game, i) ==
    IF IsKeyPressed(i, "Down") \/ IsKeyPressed(i, "S")
    THEN [game EXCEPT !.s[game.activeShape + 1] = ShapeMoveBy(@, 0, translateFactor)]
    ELSE game

ShapesKeyLeft(game, i) ==
    IF IsKeyPressed(i, "Left") \/ IsKeyPressed(i, "A")
    THEN [game EXCEPT !.s[game.activeShape + 1] = ShapeMoveBy(@, -translateFactor, 0)]
    ELSE game

ShapesKeyRight(game, i) ==
    IF IsKeyPressed(i, "Right") \/ IsKeyPressed(i, "D")
    THEN [game EXCEPT !.s[game.activeShape + 1] = ShapeMoveBy(@, translateFactor, 0)]
    ELSE game

ShapesKeyQ(game, i) ==
    IF IsKeyPressed(i, "Q")
    THEN [game EXCEPT !.s[game.activeShape + 1].theta = @ - rotateFactor]
    ELSE game

ShapesKeyE(game, i) ==
    IF IsKeyPressed(i, "E")
    THEN [game EXCEPT !.s[game.activeShape + 1].theta = @ + rotateFactor]
    ELSE game


\* ShapesKeySpace that steps past the last shape
ShapesKeySpaceNoWrap(game, dur) ==
    IF IsKeyJustPressed(dur, "Space")
    THEN [game EXCEPT !.activeShape = @ + 1]
    ELSE game

ShapesKeySpace(game, dur) ==
    IF IsKeyJustPressed(dur, "Space")
    THEN [game EXCEPT !.activeShape = (@ + 1) % Len(game.s)]
    ELSE game

\* the window's fullscreen state follows g.fullscreen (ebiten.SetFullscreen)
ShapesKeyF(game, dur) ==
    IF IsKeyJustPressed(dur, "F")
    THEN [game EXCEPT !.fullscreen = ~@]
    ELSE game

ShapesLeftClick(game, i, dur) ==
    IF IsMouseButtonJustPressed(dur, "MouseButtonLeft")
    THEN [game EXCEPT !.activeShape =
              ShapeClick(game.s, Len(game.s) - 1, i.cx, i.cy, @)]
    ELSE game

ShapesUpdate(g0, i, dur) ==
    LET g1 == ShapesKeyUp(g0, i)
        g2 == ShapesKeyDown(g1, i)
        g3 == ShapesKeyLeft(g2, i)
        g4 == ShapesKeyRight(g3, i)
        g5 == ShapesKeyQ(g4, i)
        g6 == ShapesKeyE(g5, i)
        g7 == ShapesKeySpace(g6, dur)
        g8 == ShapesKeyF(g7, dur)
        g9 == ShapesLeftClick(g8, i, dur)
    IN  Reply(g9, IF IsKeyPressed(i, "Escape") THEN ErrCleanExit ELSE "nil")

ShapesDraw(game) ==
    [text |-> <<"Active shape: ", game.s[game.activeShape + 1].id>>,
     blits |-> [k \in 1..Len(game.s) |-> ShapeDraw(game.s[k])]]

(* connect-lines *)

RECURSIVE BlockClick(_, _, _, _, _)
\* the loop "for i := len - 1; i >= 0; i--" of a left click, from index i on
BlockClick(b, i, cx, cy, active) ==
    IF i < 0 THEN active
    ELSE IF BlockIn(b[i + 1], cx, cy) THEN i
    ELSE BlockClick(b, i - 1, cx, cy, active)

connect(game, blk1, blk2) ==
    [game EXCEPT !.connections = Append(@, [blk1 |-> blk1, blk2 |-> blk2])]


RECURSIVE BlockRightClickAny(_, _, _, _)
\* BlockRightClick that also connects the selected block to itself
BlockRightClickAny(game, i, cx, cy) ==
    IF i < 0 THEN game
    ELSE IF BlockIn(game.blocks[i + 1], cx, cy)
         THEN connect(game, game.selected, i)
    ELSE BlockRightClickAny(game, i - 1, cx, cy)

RECURSIVE BlockRightClick(_, _, _, _)
\* the loop of a right click, from index i on
BlockRightClick(game, i, cx, cy) ==
    IF i < 0 THEN game
    ELSE IF BlockIn(game.blocks[i + 1], cx, cy)
         THEN (IF i # game.selected THEN connect(game, game.selected, i)
               ELSE game)
    ELSE BlockRightClick(game, i - 1, cx, cy)

ConnectKeyUp(game, i) ==
    IF IsKeyPressed(i, "Up") \/ IsKeyPressed(i, "W")
    THEN [game EXCEPT !.blocks[game.selected + 1] = BlockMove(@, 0, -translate)]
    ELSE game

ConnectKeyDown(game, i) ==
    IF IsKeyPressed(i, "Down") \/ IsKeyPressed(i, "S")
    THEN [game EXCEPT !.blocks[game.selected + 1] = BlockMove(@, 0, translate)]
    ELSE game

ConnectKeyLeft(game, i) ==
    IF IsKeyPressed(i, "Left") \/ IsKeyPressed(i, "A")
    THEN [game EXCEPT !.blocks[game.selected + 1] = BlockMove(@, -translate, 0)]
    ELSE game

ConnectKeyRight(game, i) ==
    IF IsKeyPressed(i, "Right") \/ IsKeyPressed(i, "D")
    THEN [game EXCEPT !.blocks[game.selected + 1] = BlockMove(@, translate, 0)]
    ELSE game

\* the window's fullscreen state follows g.fullscreen (ebiten.SetFullscreen)
ConnectKeyF(game, dur) ==
    IF IsKeyJustPressed(dur, "F")
    THEN [game EXCEPT !.fullscreen = ~@]
    ELSE game

ConnectLeftClick(game, i, dur) ==
    IF IsMouseButtonJustPressed(dur, "MouseButtonLeft")
    THEN [game EXCEPT !.selected =
              BlockClick(game.blocks, Len(game.blocks) - 1, i.cx, i.cy, @)]
    ELSE game

ConnectRightClick(game, i, dur) ==
    IF IsMouseButtonJustPressed(dur, "MouseButtonRight")
    THEN BlockRightClick(game, Len(game.blocks) - 1, i.cx, i.cy)
    ELSE game

ConnectUpdate(g0, i, dur) ==
    LET g1 == ConnectKeyUp(g0, i)
        g2 == ConnectKeyDown(g1, i)
        g3 == ConnectKeyLeft(g2, i)
        g4 == ConnectKeyRight(g3, i)
        g5 == ConnectKeyF(g4, dur)
        g6 == ConnectLeftClick(g5, i, dur)
        g7 == ConnectRightClick(g6, i, dur)
    IN  Reply(g7, IF IsKeyPressed(i, "Escape") THEN ErrCleanExit ELSE "nil")

ConnectDraw(game) ==
    [text |-> <<"Active block: ", game.blocks[game.selected + 1].id>>,
     lines |-> [k \in 1..Len(game.connections) |->
                  LET b1 == game.blocks[game.connections[k].blk1 + 1]
                      b2 == game.blocks[game.connections[k].blk2 + 1]
                  IN  <<b1.x + (b1.size \div 2), b1.y + (b1.size \div 2),
                        b2.x + (b2.size \div 2), b2.y + (b2.size \div 2)>>],
     blits |-> [k \in 1..Len(game.blocks) |-> BlockDraw(game.blocks[k])]]

(* starfield *)

MoveView(game, x, y) ==
    [game EXCEPT
       !.nearStars = [k \in 1..Len(@) |->
                         StarMoveBy(@[k], x * translateNear, y * translateNear)],
       !.farStars = [k \in 1..Len(@) |->
                        StarMoveBy(@[k], x * translateFar, y * translateFar)]]

StarfieldKeyUp(game, i) ==
    IF IsKeyPressed(i, "Up") \/ IsKeyPressed(i, "W")
    THEN MoveView(game, 0, -1)
    ELSE game

StarfieldKeyDown(game, i) ==
    IF IsKeyPressed(i, "Down") \/ IsKeyPressed(i, "S")
    THEN MoveView(game, 0, 1)
    ELSE game

StarfieldKeyLeft(game, i) ==
    IF IsKeyPressed(i, "Left") \/ IsKeyPressed(i, "A")
    THEN MoveView(game, -1, 0)
    ELSE game

StarfieldKeyRight(game, i) ==
    IF IsKeyPressed(i, "Right") \/ IsKeyPressed(i, "D")
    THEN MoveView(game, 1, 0)
    ELSE game

\* the window's fullscreen state follows g.fullscreen (ebiten.SetFullscreen)
StarfieldKeyF(game, dur) ==
    IF IsKeyJustPressed(dur, "F")
    THEN [game EXCEPT !.fullscreen = ~@]
    ELSE game

StarfieldUpdate(g0, i, dur) ==
    LET g1 == StarfieldKeyUp(g0, i)
        g2 == StarfieldKeyDown(g1, i)
        g3 == StarfieldKeyLeft(g2, i)
        g4 == StarfieldKeyRight(g3, i)
        g5 == StarfieldKeyF(g4, dur)
    IN  Reply(g5, IF IsKeyPressed(i, "Escape") THEN ErrCleanExit ELSE "nil")

StarfieldDraw(game) ==
    [blits |-> [k \in 1..Len(game.nearStars) |-> StarDraw(game.nearStars[k])]
                 \o [k \in 1..Len(game.farStars) |-> StarDraw(game.farStars[k])]]

(* turns *)


\* TurnsKeySpace that counts every frame in which Space is down
TurnsKeySpaceHeld(game, dur) ==
    IF dur["Space"] >= 1
    THEN [game EXCEPT !.turn = @ + 1]
    ELSE game

TurnsKeySpace(game, dur) ==
    IF IsKeyJustPressed(dur, "Space")
    THEN [game EXCEPT !.turn = @ + 1]
    ELSE game


\* TurnsUpdate that answers Escape the way the other demos do
TurnsUpdateEscape(g0, i, dur) ==
    Reply(TurnsKeySpace(g0, dur),
          IF IsKeyPressed(i, "Escape") THEN ErrCleanExit ELSE "nil")

TurnsUpdate(g0, i, dur) == Reply(TurnsKeySpace(g0, dur), "nil")

TurnsDraw(game) == [text |-> <<"Turn: ", game.turn>>]

IsTurns(d) == d \in {"turns", "turns-tps"}

Update(d, game, i, dur) ==
    CASE d = "basic-input" -> BasicInputUpdate(game, i, dur)
      [] d = "polygon-making" -> PolygonUpdate(game, i, dur)
      [] d = "gg-shapes" -> ShapesUpdate(game, i, dur)
      [] d = "connect-lines" -> ConnectUpdate(game, i, dur)
      [] d = "starfield" -> StarfieldUpdate(game, i, dur)
      [] IsTurns(d) -> TurnsUpdate(game, i, dur)

Draw(d, game) ==
    CASE d = "basic-input" -> BasicInputDraw(game)
      [] d = "polygon-making" -> PolygonGameDraw(game)
      [] d = "gg-shapes" -> ShapesDraw(game)
      [] d = "connect-lines" -> ConnectDraw(game)
      [] d = "starfield" -> StarfieldDraw(game)
      [] IsTurns(d) -> TurnsDraw(game)

---------------------------------------------------------------------------
(* main: what each program builds before it hands the Game to RunGame.     *)

NoGame == [none |-> TRUE]

BasicInputGame(img) ==
    [s |-> <<Sprite("0", img, 0, 0), Sprite("1", img, 100, 100)>>,
     activeSprite |-> 0]

PolygonGame ==
    [fullscreen |-> FALSE,
     p |-> <<NewPolygon("Triangle", 0, 10, 0, 20, 3, 255),
             NewPolygon("Pentagon", 50, 50, 0, 20, 5, 255),
             NewPolygon("Circle", 100, 100, 0, 20, 8, 255)>>,
     activePolygon |-> 0]

ShapesGame ==
    [fullscreen |-> FALSE,
     s |-> <<NewShape("Triangle", 50, 50, 0, ShapesGenPolygon(3, 30, 255)),
             NewShape("Pentagon", 100, 100, 0, ShapesGenPolygon(5, 30, 255)),
             NewShape("Rectangle", 200, 200, 0, genRectangle(30, 30, 255)),
             NewShape("Circle", 300, 300, 0, genCircle(30, 255))>>,
     activeShape |-> 0]

\* rand.Perm(n) is any permutation of 0 .. n - 1: these are the first
\* entries of two of them, with values at both ends of the range.
PermSamples(n) == { <<0, 1, n - 1, 2>>, <<n - 1, 0, 1, n - 2>> }

\* Game.init of connect-lines, for the permutations xs and ys
ConnectInit(xs, ys) ==
    [fullscreen |-> FALSE,
     blocks |-> [k \in 1..MaxBlocks |->
                    NewBlock(k - 1, xs[k], ys[k], blockSize, 255)],
     connections |-> << >>,
     selected |-> 0]

\* Game.initStarfield, for the permutations drawn for each layer
initStarfield(xs, ys, fxs, fys) ==
    [fullscreen |-> FALSE,
     nearStars |-> [k \in 1..MaxNearStars |->
                       NewStar(xs[k], ys[k], starRadius, 255)],
     farStars |-> [k \in 1..MaxFarStars |->
                      NewStar(fxs[k], fys[k], starRadius, 128)]]

TurnsGame == [turn |-> 0]

\* the Game objects main can hand to RunGame
NewGames(d) ==
    CASE d = "basic-input" -> {BasicInputGame(GopherImage)}
      [] d = "polygon-making" -> {PolygonGame}
      [] d = "gg-shapes" -> {ShapesGame}
      [] d = "connect-lines" ->
           {ConnectInit(xs, ys) : xs \in PermSamples(screenWidth),
                                  ys \in PermSamples(screenHeight)}
      [] d = "starfield" ->
           {initStarfield(xs, ys, fxs, fys) :
                xs \in PermSamples(screenWidth), ys \in PermSamples(screenHeight),
                fxs \in PermSamples(screenWidth), fys \in PermSamples(screenHeight)}
      [] IsTurns(d) -> {TurnsGame}

---------------------------------------------------------------------------
(* The inputs the host can poll in one frame.                              *)

MoveKeys == {"Up", "Down", "Left", "Right", "W", "A", "S", "D"}

\* the keys each program reads, and Escape, which the user can always press
DemoKeys(d) ==
    CASE d = "basic-input" -> {"Up", "Down", "Left", "Right", "Escape"}
      [] d \in {"polygon-making", "gg-shapes"} ->
           MoveKeys \cup {"Q", "E", "Space", "F", "Escape"}
      [] d \in {"connect-lines", "starfield"} -> MoveKeys \cup {"F", "Escape"}
      [] IsTurns(d) -> {"Space", "Escape"}

DemoButtons(d) ==
    CASE d \in {"basic-input", "polygon-making", "gg-shapes"} -> {"MouseButtonLeft"}
      [] d = "connect-lines" -> {"MouseButtonLeft", "MouseButtonRight"}
      [] OTHER -> {}

\* the entities a click can land on
Entities(d, game) ==
    CASE d = "basic-input" -> game.s
      [] d = "polygon-making" -> game.p
      [] d = "gg-shapes" -> game.s
      [] d = "connect-lines" -> game.blocks
      [] OTHER -> << >>

\* a point in the middle of where the entity's In looks for its bitmap
InCentre(d, e) ==
    CASE d = "basic-input" -> <<e.x + (e.img.w \div 2), e.y + (e.img.h \div 2)>>
      [] d = "polygon-making" -> <<e.x, e.y>>
      [] d = "gg-shapes" -> <<e.x - (e.img.w \div 2), e.y - (e.img.h \div 2)>>
      [] d = "connect-lines" -> <<e.x + (e.size \div 2), e.y + (e.size \div 2)>>

\* where the cursor is when a button goes down: on an entity, half way
\* between two neighbours in the list, or in the screen's corner
CursorPoints(d, game) ==
    LET es == Entities(d, game)
        c(k) == InCentre(d, es[k])
    IN  {c(k) : k \in 1..Len(es)}
          \cup {<<(c(k)[1] + c(k + 1)[1]) \div 2, (c(k)[2] + c(k + 1)[2]) \div 2>> :
                   k \in 1..(Len(es) - 1)}
          \cup {<<0, 0>>}

Inputs(d, game) ==
    {[keys |-> ks, buttons |-> {}, cx |-> 0, cy |-> 0] :
        ks \in {c \in SUBSET DemoKeys(d) : Cardinality(c) <= MaxPressed}}
    \cup
    {[keys |-> kb[1], buttons |-> kb[2], cx |-> pt[1], cy |-> pt[2]] :
        kb \in {x \in (SUBSET DemoKeys(d)) \X (SUBSET DemoButtons(d)) :
                   /\ x[2] # {}
                   /\ Cardinality(x[1]) + Cardinality(x[2]) <= MaxPressed},
        pt \in CursorPoints(d, game)}

---------------------------------------------------------------------------
(* The process: main, and the host's frame loop inside ebiten.RunGame.     *)

FrameCap(d) == IF IsTurns(d) THEN MaxTurnFrames ELSE MaxFrames


\* ErrorsIs that takes every error for the target
ErrorsIsAny(err, target) == TRUE

\* errors.Is on errors that are never wrapped
ErrorsIs(err, target) == err = target

Init ==
    /\ demo \in Demos
    /\ g = NoGame
    /\ in = NoInput
    /\ keyDurations = [k \in EdgeInputs |-> 0]
    /\ pc = "main"
    /\ frames = 0
    /\ ret = "none"
    /\ runErr = "none"
    /\ stdout = << >>
    /\ exitCode = -1
    /\ screen = << >>
    /\ edges = 0
    /\ moves = 0
    /\ clicks = 0

\* basic-input: NewImageFromFile fails and main calls log.Fatal
MainLoadFails ==
    /\ pc = "main"
    /\ demo = "basic-input"
    /\ runErr' = "ErrImageLoad"
    /\ exitCode' = 1
    /\ pc' = "exit"
    /\ UNCHANGED <<demo, g, in, keyDurations, frames, ret, stdout, screen, edges, moves, clicks>>

\* main builds the Game and calls ebiten.RunGame
MainRunGame ==
    /\ pc = "main"
    /\ g' \in NewGames(demo)
    /\ pc' = "poll"
    /\ UNCHANGED <<demo, in, keyDurations, frames, ret, runErr, stdout,
                   exitCode, screen, edges, moves, clicks>>

\* the host polls the input of the next frame; inpututil's hook runs
HostPoll ==
    /\ pc = "poll"
    /\ frames < FrameCap(demo)
    /\ \E i \in Inputs(demo, g) :
          /\ in' = i
          /\ keyDurations' = UpdateDurations(keyDurations, i)
          /\ edges' = IF InputDown(i, "Space") /\ keyDurations["Space"] = 0
                      THEN edges + 1 ELSE edges
          /\ clicks' = IF InputDown(i, "MouseButtonLeft")
                            /\ keyDurations["MouseButtonLeft"] = 0
                       THEN clicks + 1 ELSE clicks
    /\ pc' = "update"
    /\ UNCHANGED <<demo, g, frames, ret, runErr, stdout, exitCode, screen, moves>>

\* the host calls Game.Update; an error ends RunGame, which returns it
CallUpdate ==
    /\ pc = "update"
    /\ LET r == Update(demo, g, in, keyDurations)
       IN  /\ g' = r.g
           /\ ret' = r.err
           /\ IF r.err = "nil"
              THEN pc' = "draw" /\ runErr' = runErr
              ELSE pc' = "returned" /\ runErr' = r.err
    /\ frames' = frames + 1
    /\ UNCHANGED <<demo, in, keyDurations, stdout, exitCode, screen, edges, moves, clicks>>

\* the host calls Game.Draw, and the frame is over
CallDraw ==
    /\ pc = "draw"
    /\ screen' = Draw(demo, g)
    /\ in' = NoInput
    /\ pc' = "poll"
    /\ UNCHANGED <<demo, g, keyDurations, frames, ret, runErr, stdout,
                   exitCode, edges, moves, clicks>>

\* RunGame ends on its own: the window is closed (nil) or the engine fails
HostStop ==
    /\ pc = "poll"
    /\ runErr' \in {"nil", "ErrEngine"}
    /\ pc' = "returned"
    /\ UNCHANGED <<demo, g, in, keyDurations, frames, ret, stdout, exitCode,
                   screen, edges, moves, clicks>>

\* main after RunGame returned err
MainReturn ==
    /\ pc = "returned"
    /\ IF runErr # "nil"
       THEN IF ~IsTurns(demo) /\ ErrorsIs(runErr, ErrCleanExit)
            THEN stdout' = Append(stdout, "Good bye!") /\ exitCode' = 0
            ELSE stdout' = stdout /\ exitCode' = 1
       ELSE stdout' = stdout /\ exitCode' = 0
    /\ pc' = "exit"
    /\ UNCHANGED <<demo, g, in, keyDurations, frames, ret, runErr, screen, edges, moves, clicks>>

Next ==
    \/ MainLoadFails
    \/ MainRunGame
    \/ HostPoll
    \/ CallUpdate
    \/ CallDraw
    \/ HostStop
    \/ MainReturn

Spec == Init /\ [][Next]_vars

---------------------------------------------------------------------------
(* The move methods called directly, any number of times and with deltas   *)
(* of any size, on the entity the Game holds as active.                    *)

MaxDelta == 700       \* the largest delta handed to a move method

Deltas == {-MaxDelta, -translateFactor, 0, translateFactor, MaxDelta}

\* g.s[g.activeSprite].MoveBy(dx, dy), and its like in the other demos
MoveActive(d, game, dx, dy) ==
    CASE d = "basic-input" ->
           [game EXCEPT !.s[game.activeSprite + 1] = SpriteMoveBy(@, dx, dy)]
      [] d = "polygon-making" ->
           [game EXCEPT !.p[game.activePolygon + 1] = PolygonMoveBy(@, dx, dy)]
      [] d = "gg-shapes" ->
           [game EXCEPT !.s[game.activeShape + 1] = ShapeMoveBy(@, dx, dy)]
      [] d = "connect-lines" ->
           [game EXCEPT !.blocks[game.selected + 1] = BlockMove(@, dx, dy)]

HasActive(d) ==
    d \in {"basic-input", "polygon-making", "gg-shapes", "connect-lines"}

\* the entity the Game holds as active
Active(d, game) ==
    CASE d = "basic-input" -> game.s[game.activeSprite + 1]
      [] d = "polygon-making" -> game.p[game.activePolygon + 1]
      [] d = "gg-shapes" -> game.s[game.activeShape + 1]
      [] d = "connect-lines" -> game.blocks[game.selected + 1]

CallMove ==
    /\ pc \in {"poll", "moved"}
    /\ HasActive(demo)
    /\ \E dx \in Deltas, dy \in Deltas : g' = MoveActive(demo, g, dx, dy)
    /\ pc' = "moved"
    /\ UNCHANGED <<demo, in, keyDurations, frames, ret, runErr, stdout,
                   exitCode, screen, edges, moves, clicks>>


MaxViewMoves == 3     \* direct calls of Game.MoveView in one run

ViewSteps == {-1, 0, 1}

\* g.MoveView(x, y) of starfield, called directly
CallMoveView ==
    /\ pc \in {"poll", "moved"}
    /\ demo = "starfield"
    /\ moves < MaxViewMoves
    /\ \E x \in ViewSteps, y \in ViewSteps : g' = MoveView(g, x, y)
    /\ moves' = moves + 1
    /\ pc' = "moved"
    /\ UNCHANGED <<demo, in, keyDurations, frames, ret, runErr, stdout,
                   exitCode, screen, edges, clicks>>

NextMoves ==
    \/ MainRunGame
    \/ CallMove
    \/ CallMoveView

SpecMoves == Init /\ [][NextMoves]_vars

---------------------------------------------------------------------------
(* The frame loop over many frames, for the inputs that pick the active    *)
(* entity: Space and the mouse buttons.                                    *)

MaxSelectFrames == 7  \* frames run in one run of the selection inputs
MaxSelectPressed == 1 \* keys and buttons held down at once in such a frame

SelectKeys(d) == DemoKeys(d) \cap {"Space"}

SelectInputs(d, game) ==
    {[keys |-> ks, buttons |-> {}, cx |-> 0, cy |-> 0] :
        ks \in {c \in SUBSET SelectKeys(d) : Cardinality(c) <= MaxSelectPressed}}
    \cup
    {[keys |-> kb[1], buttons |-> kb[2], cx |-> pt[1], cy |-> pt[2]] :
        kb \in {x \in (SUBSET SelectKeys(d)) \X (SUBSET DemoButtons(d)) :
                   /\ x[2] # {}
                   /\ Cardinality(x[1]) + Cardinality(x[2]) <= MaxSelectPressed},
        pt \in CursorPoints(d, game)}

\* the host polls one of the selection inputs for the next frame
HostPollSelect ==
    /\ pc = "poll"
    /\ frames < MaxSelectFrames
    /\ \E i \in SelectInputs(demo, g) :
          /\ in' = i
          /\ keyDurations' = UpdateDurations(keyDurations, i)
          /\ edges' = IF InputDown(i, "Space") /\ keyDurations["Space"] = 0
                      THEN edges + 1 ELSE edges
          /\ clicks' = IF InputDown(i, "MouseButtonLeft")
                            /\ keyDurations["MouseButtonLeft"] = 0
                       THEN clicks + 1 ELSE clicks
    /\ pc' = "update"
    /\ UNCHANGED <<demo, g, frames, ret, runErr, stdout, exitCode, screen, moves>>

NextSelect ==
    \/ MainRunGame
    \/ HostPollSelect
    \/ CallUpdate
    \/ CallDraw

SpecSelect == Init /\ [][NextSelect]_vars

---------------------------------------------------------------------------
(* genPolygon of polygon-making called on its own.                         *)

MaxRadius == 20       \* the largest radius handed to genPolygon
MaxSides == 8         \* the largest number of sides handed to genPolygon

\* vs, indices := genPolygon(radius, num)
CallGenPolygon ==
    /\ pc = "main"
    /\ demo = "polygon-making"
    /\ \E radius \in 1..MaxRadius, num \in 3..MaxSides :
          g' = [radius |-> radius, num |-> num,
                vs |-> genPolygon(radius, num).vs,
                indices |-> genPolygon(radius, num).indices]
    /\ pc' = "generated"
    /\ UNCHANGED <<demo, in, keyDurations, frames, ret, runErr, stdout,
                   exitCode, screen, edges, moves, clicks>>

NextGen == CallGenPolygon

SpecGen == Init /\ [][NextGen]_vars

---------------------------------------------------------------------------
(* basic-input: frames of direction keys, run on sprites that direct calls *)
(* of MoveBy have put anywhere in their range.                             *)

DirectionInputs ==
    {[keys |-> ks, buttons |-> {}, cx |-> 0, cy |-> 0] :
        ks \in {c \in SUBSET {"Up", "Down", "Left", "Right"} :
                   Cardinality(c) <= MaxPressed}}

\* MoveBy called directly before the first frame
CallMoveFirst == frames = 0 /\ CallMove

\* the host polls the direction keys for the next frame
HostPollDirections ==
    /\ pc \in {"poll", "moved"}
    /\ demo = "basic-input"
    /\ frames < MaxFrames
    /\ \E i \in DirectionInputs :
          /\ in' = i
          /\ keyDurations' = UpdateDurations(keyDurations, i)
    /\ pc' = "update"
    /\ UNCHANGED <<demo, g, frames, ret, runErr, stdout, exitCode, screen,
                   edges, moves, clicks>>

NextMoveFrames ==
    \/ MainRunGame
    \/ CallMoveFirst
    \/ HostPollDirections
    \/ CallUpdate
    \/ CallDraw

SpecMoveFrames == Init /\ [][NextMoveFrames]_vars

---------------------------------------------------------------------------
(* connect-lines: frames in which blocks are selected, connected and moved.*)

MaxConnectFrames == 3 \* frames run in one run of connect-lines
MaxConnectPressed == 1 \* keys and buttons held down at once in such a frame

ConnectInputs(game) ==
    {[keys |-> ks, buttons |-> {}, cx |-> 0, cy |-> 0] :
        ks \in {c \in SUBSET {"Right"} : Cardinality(c) <= MaxConnectPressed}}
    \cup
    {[keys |-> kb[1], buttons |-> kb[2], cx |-> pt[1], cy |-> pt[2]] :
        kb \in {x \in (SUBSET {"Right"}) \X (SUBSET DemoButtons("connect-lines")) :
                   /\ x[2] # {}
                   /\ Cardinality(x[1]) + Cardinality(x[2]) <= MaxConnectPressed},
        pt \in CursorPoints("connect-lines", game)}

\* the host polls the mouse and the Right key for the next frame
HostPollConnect ==
    /\ pc = "poll"
    /\ demo = "connect-lines"
    /\ frames < MaxConnectFrames
    /\ \E i \in ConnectInputs(g) :
          /\ in' = i
          /\ keyDurations' = UpdateDurations(keyDurations, i)
          /\ clicks' = IF InputDown(i, "MouseButtonLeft")
                            /\ keyDurations["MouseButtonLeft"] = 0
                       THEN clicks + 1 ELSE clicks
    /\ pc' = "update"
    /\ UNCHANGED <<demo, g, frames, ret, runErr, stdout, exitCode, screen,
                   edges, moves>>

NextConnect ==
    \/ MainRunGame
    \/ HostPollConnect
    \/ CallUpdate
    \/ CallDraw

SpecConnect == Init /\ [][NextConnect]_vars

---------------------------------------------------------------------------
(* Claims.                                                                 *)

\* C1: after one or more moves with any deltas, a Sprite (basic-input) or a
\* Block (connect-lines) no larger than the screen has
\* 0 <= x <= screenWidth - w and 0 <= y <= screenHeight - h.
C1_TopLeftClamped ==
    /\ (pc = "moved" /\ demo = "basic-input") =>
          LET s == Active(demo, g)
          IN  (s.img.w <= screenWidth /\ s.img.h <= screenHeight) =>
                 /\ 0 <= s.x /\ s.x <= screenWidth - s.img.w
                 /\ 0 <= s.y /\ s.y <= screenHeight - s.img.h
    /\ (pc = "moved" /\ demo = "connect-lines") =>
          LET b == Active(demo, g)
          IN  (b.size <= screenWidth /\ b.size <= screenHeight) =>
                 /\ 0 <= b.x /\ b.x <= screenWidth - b.size
                 /\ 0 <= b.y /\ b.y <= screenHeight - b.size

\* a sprite that moves stopped at the right and bottom edges
C1_Witness ==
    /\ pc = "moved"
    /\ demo = "basic-input"
    /\ Active(demo, g).x = screenWidth - GopherW
    /\ Active(demo, g).y = screenHeight - GopherH

\* C2: after one or more Polygon.MoveBy calls the centre of a polygon of
\* radius r has r <= x <= screenWidth - r and r <= y <= screenHeight - r, and
\* the 2r x 2r square Draw puts its bitmap in lies inside the screen.
C2_CentreClamped ==
    (pc = "moved" /\ demo = "polygon-making") =>
       LET p == Active(demo, g)
           b == PolygonDraw(p)
           left == b.postx + (b.pre2x \div 2)
           top == b.posty + (b.pre2y \div 2)
       IN  /\ p.radius <= p.x /\ p.x <= screenWidth - p.radius
           /\ p.radius <= p.y /\ p.y <= screenHeight - p.radius
           /\ 0 <= left /\ left + b.img.w <= screenWidth
           /\ 0 <= top /\ top + b.img.h <= screenHeight
           /\ b.img.w = 2 * p.radius /\ b.img.h = 2 * p.radius

\* a polygon that moves stopped at the right and bottom edges
C2_Witness ==
    /\ pc = "moved"
    /\ demo = "polygon-making"
    /\ Active(demo, g).x = screenWidth - Active(demo, g).radius
    /\ Active(demo, g).y = screenHeight - Active(demo, g).radius


\* where a coordinate v stepping by d ends on an axis of length max: on the
\* opposite edge when it passes an edge
Wrapped(v, d, max) ==
    IF v + d > max THEN 0 ELSE IF v + d < 0 THEN max ELSE v + d

StarInRange(s) ==
    0 <= s.x /\ s.x <= screenWidth /\ 0 <= s.y /\ s.y <= screenHeight

\* star s became t by a view move (x, y) of a layer stepping by step
StarStepped(s, t, x, y, step) ==
    /\ t.x = Wrapped(s.x, x * step, screenWidth)
    /\ t.y = Wrapped(s.y, y * step, screenHeight)
    /\ t.radius = s.radius /\ t.img = s.img

\* C3: in starfield every star has 0 <= x <= screenWidth and
\* 0 <= y <= screenHeight after any sequence of view moves, and a view move
\* (x, y) with x, y in {-1, 0, 1} steps every near star by 3 and every far
\* star by 1 per component, a coordinate that passes an edge landing exactly
\* on the opposite edge.
C3_StarsWrap ==
    /\ []((demo = "starfield" /\ pc = "moved") =>
             /\ \A k \in 1..Len(g.nearStars) : StarInRange(g.nearStars[k])
             /\ \A k \in 1..Len(g.farStars) : StarInRange(g.farStars[k]))
    /\ [][(demo = "starfield" /\ pc' = "moved") =>
             \E x \in ViewSteps, y \in ViewSteps :
                /\ Len(g'.nearStars) = Len(g.nearStars)
                /\ Len(g'.farStars) = Len(g.farStars)
                /\ \A k \in 1..Len(g.nearStars) :
                      StarStepped(g.nearStars[k], g'.nearStars[k], x, y, translateNear)
                /\ \A k \in 1..Len(g.farStars) :
                      StarStepped(g.farStars[k], g'.farStars[k], x, y, translateFar)]_vars

\* a near star that left through the left edge stands on the right edge, and
\* a far star that left through the right edge stands on the left edge
C3_Witness ==
    /\ demo = "starfield"
    /\ pc = "moved"
    /\ g.nearStars[1].x = screenWidth
    /\ g.farStars[1].x = 0
    /\ g.farStars[1].y = screenHeight


\* C4: in the turns demo Game.turn equals the number of frames so far in
\* which Space went from released to pressed; a frame in which Space is
\* still held from the previous frame, or is not pressed, leaves turn
\* unchanged, and no frame decreases turn or adds more than 1 to it.
C4_TurnCountsRisingEdges ==
    /\ []((IsTurns(demo) /\ pc \in {"poll", "draw", "returned", "exit"}) =>
             g.turn = edges)
    /\ [][(IsTurns(demo) /\ pc # "main") =>
             /\ g'.turn \in {g.turn, g.turn + 1}
             /\ (pc = "update" /\ (~IsKeyPressed(in, "Space")
                                     \/ keyDurations["Space"] >= 2)) =>
                    g'.turn = g.turn
             /\ pc # "update" => g'.turn = g.turn]_vars

\* Space pressed in one frame and held for two more counted once
C4_Witness ==
    /\ IsTurns(demo)
    /\ pc = "draw"
    /\ frames = 3
    /\ IsKeyPressed(in, "Space")
    /\ keyDurations["Space"] = 2
    /\ edges = 1
    /\ g.turn = 1

\* points on, next to and inside the span of len pixels that starts at lo
ProbeAxis(lo, len) ==
    {lo - 1, lo, lo + (len \div 4), lo + (len \div 2), lo + len - 1, lo + len}

\* In of entity e agrees, around the rectangle of width w and height h at
\* (left, top), with the bitmap that blit b put on the screen
InMatchesBlit(d, e, b, left, top, w, h) ==
    /\ b.img = e.img /\ b.img.w = w /\ b.img.h = h
    /\ b.postx + (b.pre2x \div 2) = left
    /\ b.posty + (b.pre2y \div 2) = top
    /\ \A x \in ProbeAxis(left, w), y \in ProbeAxis(top, h) :
          LET hit == IF d = "basic-input" THEN SpriteIn(e, x, y)
                     ELSE PolygonIn(e, x, y)
          IN  /\ hit <=> BlitAlphaAt(b, x, y) > 0
              /\ (x < left \/ x >= left + w \/ y < top \/ y >= top + h) => ~hit

\* C5: after a frame was drawn, Sprite.In and Polygon.In are true at a
\* screen point exactly when the entity's bitmap, as Draw placed it (corner
\* at (s.x, s.y) for a Sprite, centre at (p.x, p.y) for a Polygon, rotation
\* left aside), has alpha > 0 there, and false outside the bitmap's rectangle.
C5_InMatchesDrawn ==
    /\ (demo = "basic-input" /\ pc = "poll" /\ frames > 0) =>
          \A k \in 1..Len(g.s) :
             InMatchesBlit(demo, g.s[k], screen.blits[k], g.s[k].x, g.s[k].y,
                           g.s[k].img.w, g.s[k].img.h)
    /\ (demo = "polygon-making" /\ pc = "poll" /\ frames > 0) =>
          \A k \in 1..Len(g.p) :
             InMatchesBlit(demo, g.p[k], screen.blits[k],
                           g.p[k].x - g.p[k].radius, g.p[k].y - g.p[k].radius,
                           2 * g.p[k].radius, 2 * g.p[k].radius)

\* the triangle, moved into the screen's corner and drawn, is hit inside its
\* outline and missed in the transparent corner of its bitmap
C5_Witness ==
    /\ demo = "polygon-making"
    /\ pc = "poll"
    /\ frames > 0
    /\ g.p[1].x = 20 /\ g.p[1].y = 20
    /\ PolygonIn(g.p[1], 20, 30)
    /\ BlitAlphaAt(screen.blits[1], 20, 30) > 0
    /\ ~PolygonIn(g.p[1], 0, 0)


\* C6: in connect-lines Block.In(x, y) is true only for points of the square
\* Block.Draw fills: b.x <= x < b.x + size and b.y <= y < b.y + size.
C6_BlockInInsideDrawn ==
    (demo = "connect-lines" /\ pc = "poll") =>
       \A k \in 1..Len(g.blocks) :
          LET b == g.blocks[k]
          IN  \A x \in ProbeAxis(b.x, b.size), y \in ProbeAxis(b.y, b.size) :
                 BlockIn(b, x, y) =>
                    /\ b.x <= x /\ x < b.x + b.size
                    /\ b.y <= y /\ y < b.y + b.size
                    /\ BlitAlphaAt(BlockDraw(b), x, y) > 0

\* C7: in gg-shapes Shape.In(cx, cy) is true only for points of the shape's
\* opaque region as Shape.Draw places it at theta = 0: inside the w x h
\* bitmap centred on (s.x, s.y), on a pixel with alpha > 0.
C7_ShapeInInsideDrawn ==
    (demo = "gg-shapes" /\ pc = "poll") =>
       \A k \in 1..Len(g.s) :
          LET s == g.s[k]
              w == s.img.w
              h == s.img.h
              left == s.x - (w \div 2)
              top == s.y - (h \div 2)
          IN  \A cx \in ProbeAxis(left, w) \cup ProbeAxis(s.x - w, w),
                 cy \in ProbeAxis(top, h) \cup ProbeAxis(s.y - h, h) :
                 ShapeIn(s, cx, cy) =>
                    /\ left <= cx /\ cx < left + w
                    /\ top <= cy /\ cy < top + h
                    /\ BlitAlphaAt(ShapeDraw(s), cx, cy) > 0


\* C8 as stated: in every demo, the turns demo included, Update returns
\* ErrCleanExit in every frame in which Escape is pressed and nil in every
\* frame in which it is not.
C8_EscapeInEveryDemo ==
    [][pc = "update" =>
          ret' = (IF IsKeyPressed(in, "Escape") THEN ErrCleanExit ELSE "nil")]_vars

\* C8: in basic-input, polygon-making, gg-shapes, starfield and connect-lines
\* Update returns ErrCleanExit in every frame in which Escape is pressed and
\* nil in every other frame; in the turns demo Update returns nil in every
\* frame, Escape pressed or not, and the frame loop goes on.
C8_EscapeOutsideTurns ==
    [][pc = "update" =>
          IF IsTurns(demo)
          THEN ret' = "nil" /\ pc' = "draw"
          ELSE /\ ret' = (IF IsKeyPressed(in, "Escape") THEN ErrCleanExit
                          ELSE "nil")
               /\ IsKeyPressed(in, "Escape") =>
                     (pc' = "returned" /\ runErr' = ErrCleanExit)]_vars

\* the turns demo ran a frame with Escape pressed: Update returned nil
C8_Witness ==
    /\ IsTurns(demo)
    /\ pc = "draw"
    /\ IsKeyPressed(in, "Escape")
    /\ ret = "nil"

\* C9: in the demos with basic-input's main the process prints the farewell
\* and exits with status 0 exactly when RunGame returned ErrCleanExit; a
\* failed image load ends the process with a failure status before any
\* Update or Draw; any other error of RunGame ends it with a failure status
\* and no farewell; nothing is printed while the process runs.
C9_ProcessOutcome ==
    ~IsTurns(demo) =>
       /\ pc = "exit" =>
             /\ (stdout = <<"Good bye!">> /\ exitCode = 0) <=>
                   runErr = ErrCleanExit
             /\ runErr = "ErrImageLoad" =>
                   /\ exitCode = 1 /\ stdout = << >>
                   /\ frames = 0 /\ ret = "none" /\ g = NoGame
             /\ runErr \notin {"nil", ErrCleanExit} =>
                   exitCode = 1 /\ stdout = << >>
             /\ runErr = "nil" => exitCode = 0 /\ stdout = << >>
       /\ pc # "exit" => stdout = << >> /\ exitCode = -1

\* basic-input ended by Escape in its first frame
C9_Witness ==
    /\ demo = "basic-input"
    /\ pc = "exit"
    /\ frames = 1
    /\ runErr = ErrCleanExit
    /\ stdout = <<"Good bye!">>
    /\ exitCode = 0

\* the Go index of the entity the Game holds as active
ActiveIndex(d, game) ==
    CASE d = "basic-input" -> game.activeSprite
      [] d = "polygon-making" -> game.activePolygon
      [] d = "gg-shapes" -> game.activeShape
      [] d = "connect-lines" -> game.selected

\* entity t is entity e but for its position and rotation
SameButPlace(d, e, t) ==
    /\ t.id = e.id
    /\ t.img = e.img
    /\ d = "polygon-making" => t.radius = e.radius
    /\ d = "connect-lines" => t.size = e.size /\ t.clr = e.clr

\* C10: in basic-input, polygon-making, gg-shapes and connect-lines an
\* Update keeps the number of entities and every entity's identity, size and
\* bitmap, and changes the position or rotation of no entity but the one that
\* was active when the frame began; Draw changes nothing of the Game.
C10_FrameEffect ==
    [][HasActive(demo) =>
          /\ pc = "update" =>
                LET es == Entities(demo, g)
                    ts == Entities(demo, g')
                IN  /\ Len(ts) = Len(es)
                    /\ \A k \in 1..Len(es) :
                          /\ SameButPlace(demo, es[k], ts[k])
                          /\ k # ActiveIndex(demo, g) + 1 => ts[k] = es[k]
          /\ pc = "draw" => g' = g]_vars

\* polygon-making: E and Space in one frame turned the triangle, which was
\* active when the frame began, and made the pentagon active
C10_Witness ==
    /\ demo = "polygon-making"
    /\ pc = "draw"
    /\ in.keys = {"E", "Space"}
    /\ g.activePolygon = 1
    /\ g.p[1].theta = rotateFactor
    /\ g.p[2].theta = 0


\* In of the demo's entity type
EntityIn(d, e, x, y) ==
    CASE d = "basic-input" -> SpriteIn(e, x, y)
      [] d = "polygon-making" -> PolygonIn(e, x, y)
      [] d = "gg-shapes" -> ShapeIn(e, x, y)
      [] d = "connect-lines" -> BlockIn(e, x, y)

\* the active index once the keys of the frame are handled: Space, where the
\* demo reads it, has moved it on by one
AfterKeys(d, game, dur) ==
    IF d \in {"polygon-making", "gg-shapes"} /\ dur["Space"] = 1
    THEN (ActiveIndex(d, game) + 1) % Len(Entities(d, game))
    ELSE ActiveIndex(d, game)

\* C11: in a frame in which the left button was just pressed at (cx, cy) the
\* active index becomes the largest index whose entity's In(cx, cy) is true,
\* and stays what the frame's keys made it if no entity contains the cursor;
\* in a frame without a left press edge (button up, or still held) no click
\* changes it.  Draw blits the entities in slice order, the largest index last.
C11_TopmostSelected ==
    /\ [][(HasActive(demo) /\ pc = "update") =>
          LET ts == Entities(demo, g')
              hits == {i \in 0..(Len(ts) - 1) :
                          EntityIn(demo, ts[i + 1], in.cx, in.cy)}
              a == ActiveIndex(demo, g')
          IN  IF keyDurations["MouseButtonLeft"] = 1 /\ hits # {}
              THEN a \in hits /\ \A j \in hits : j <= a
              ELSE a = AfterKeys(demo, g, keyDurations)]_vars
    /\ [][(HasActive(demo) /\ pc = "draw") =>
             LET es == Entities(demo, g)
             IN  /\ Len(screen'.blits) = Len(es)
                 /\ \A k \in 1..Len(es) :
                       /\ screen'.blits[k].img = es[k].img
                       /\ screen'.blits[k].postx = es[k].x
                       /\ screen'.blits[k].posty = es[k].y]_vars

\* basic-input: a click where both sprites are opaque made the upper one,
\* sprite 1, active
C11_Witness ==
    /\ demo = "basic-input"
    /\ pc = "draw"
    /\ in.buttons = {"MouseButtonLeft"}
    /\ keyDurations["MouseButtonLeft"] = 1
    /\ SpriteIn(g.s[1], in.cx, in.cy)
    /\ SpriteIn(g.s[2], in.cx, in.cy)
    /\ g.activeSprite = 1


\* the corners of triangle t (counted from 0) of an index list
Corners(indices, t) ==
    {indices[3 * t + 1], indices[3 * t + 2], indices[3 * t + 3]}

\* C12: genPolygon(radius, num) with num >= 3 returns num + 1 vertices, the
\* last one the centre (radius, radius), and 3 * num indices: triangle i
\* (0 <= i < num) is (i, (i + 1) mod num, num); every index is below num + 1
\* and every rim vertex is a corner of exactly two triangles.
C12_TriangleFan ==
    pc = "generated" =>
       /\ Len(g.vs) = g.num + 1
       /\ g.vs[g.num + 1].DstX = 100 * g.radius
       /\ g.vs[g.num + 1].DstY = 100 * g.radius
       /\ Len(g.indices) = 3 * g.num
       /\ \A i \in 0..(g.num - 1) :
             /\ g.indices[3 * i + 1] = i
             /\ g.indices[3 * i + 2] = (i + 1) % g.num
             /\ g.indices[3 * i + 3] = g.num
       /\ \A k \in 1..Len(g.indices) :
             0 <= g.indices[k] /\ g.indices[k] < g.num + 1
       /\ \A v \in 0..(g.num - 1) :
             Cardinality({t \in 0..(g.num - 1) : v \in Corners(g.indices, t)}) = 2

\* an octagon: the last triangle closes the fan on vertex 0
C12_Witness ==
    /\ pc = "generated"
    /\ g.num = 8
    /\ g.radius = 20
    /\ Len(g.vs) = 9
    /\ Corners(g.indices, 7) = {7, 0, 8}


\* C13: in basic-input, polygon-making, gg-shapes and connect-lines the
\* active index is always a valid index of the entity list; in polygon-making
\* and gg-shapes a frame with a Space press edge and no click moves it on by
\* one modulo the number N of entities, so that while no click has happened
\* it is the number of Space edges modulo N, back at its start after N edges.
C13_ActiveIndexValid ==
    /\ []((HasActive(demo) /\ pc # "main") =>
             /\ 0 <= ActiveIndex(demo, g)
             /\ ActiveIndex(demo, g) < Len(Entities(demo, g)))
    /\ []((demo \in {"polygon-making", "gg-shapes"} /\ pc \in {"poll", "draw"}
              /\ clicks = 0) =>
             ActiveIndex(demo, g) = edges % Len(Entities(demo, g)))
    /\ [][(demo \in {"polygon-making", "gg-shapes"} /\ pc = "update"
              /\ IsKeyPressed(in, "Space") /\ keyDurations["Space"] = 1
              /\ keyDurations["MouseButtonLeft"] # 1) =>
             ActiveIndex(demo, g') =
                (ActiveIndex(demo, g) + 1) % Len(Entities(demo, g))]_vars

\* gg-shapes: four Space presses and no click brought the first shape back
C13_Witness ==
    /\ demo = "gg-shapes"
    /\ pc = "draw"
    /\ edges = Len(g.s)
    /\ clicks = 0
    /\ g.activeShape = 0


\* keys that move the active entity along the x axis, and along the y axis
HorizontalKeys == {"Left", "Right", "A", "D"}

VerticalKeys == {"Up", "Down", "W", "S"}

\* C14: in polygon-making and connect-lines every entity, active or not, lies
\* within its clamp range in every state from the first one on (polygon
\* centre in [radius, screenWidth - radius] x [radius, screenHeight - radius];
\* block with 0 <= x, x + size <= screenWidth, 0 <= y, y + size <=
\* screenHeight), and a frame that moves along one axis only leaves every
\* entity's other coordinate as it was.
C14_AlwaysInClampRange ==
    /\ []((demo = "polygon-making" /\ pc # "main") =>
             \A k \in 1..Len(g.p) :
                /\ g.p[k].radius <= g.p[k].x
                /\ g.p[k].x <= screenWidth - g.p[k].radius
                /\ g.p[k].radius <= g.p[k].y
                /\ g.p[k].y <= screenHeight - g.p[k].radius)
    /\ []((demo = "connect-lines" /\ pc # "main") =>
             \A k \in 1..Len(g.blocks) :
                /\ 0 <= g.blocks[k].x
                /\ g.blocks[k].x + g.blocks[k].size <= screenWidth
                /\ 0 <= g.blocks[k].y
                /\ g.blocks[k].y + g.blocks[k].size <= screenHeight)
    /\ [][(demo \in {"polygon-making", "connect-lines"} /\ pc = "update") =>
             LET es == Entities(demo, g)
                 ts == Entities(demo, g')
             IN  /\ in.keys \cap HorizontalKeys = {} =>
                       \A k \in 1..Len(es) : ts[k].x = es[k].x
                 /\ in.keys \cap VerticalKeys = {} =>
                       \A k \in 1..Len(es) : ts[k].y = es[k].y]_vars


\* a frame with both keys of an axis held took coordinate v to w: w = v
\* exactly when v >= translateFactor, and w = translateFactor below that
OppositeKeysEffect(v, w) ==
    /\ (w = v) <=> (v >= translateFactor)
    /\ v < translateFactor => w = translateFactor

\* C15: in basic-input, with a sprite that leaves at least translateFactor
\* of room on the axis, a frame with Up and Down both held (or Left and Right)
\* leaves the active sprite's coordinate on that axis unchanged exactly when
\* it was at least translateFactor before the frame, and sets it to
\* translateFactor when it was less.
C15_OppositeKeys ==
    [][(demo = "basic-input" /\ pc = "update") =>
          LET s == g.s[g.activeSprite + 1]
              t == g'.s[g.activeSprite + 1]
          IN  /\ ({"Up", "Down"} \subseteq in.keys
                    /\ screenHeight - s.img.h >= translateFactor) =>
                    OppositeKeysEffect(s.y, t.y)
              /\ ({"Left", "Right"} \subseteq in.keys
                    /\ screenWidth - s.img.w >= translateFactor) =>
                    OppositeKeysEffect(s.x, t.x)]_vars

\* a frame with Up and Down held ran on a sprite that had been moved to the
\* right edge, and left it at y = translateFactor
C15_Witness ==
    /\ demo = "basic-input"
    /\ pc = "draw"
    /\ in.keys = {"Up", "Down"}
    /\ g.s[1].x = screenWidth - g.s[1].img.w
    /\ g.s[1].y = translateFactor


\* C16: in connect-lines every recorded connection joins two different valid
\* block indices; a frame records at most one connection, whose blk1 is the
\* block selected when it is made, and leaves the connections recorded
\* before it as they were, also when the selection changes or a block moves.
C16_ConnectionsKept ==
    /\ []((demo = "connect-lines" /\ pc # "main") =>
             \A k \in 1..Len(g.connections) :
                /\ g.connections[k].blk1 # g.connections[k].blk2
                /\ g.connections[k].blk1 \in 0..(Len(g.blocks) - 1)
                /\ g.connections[k].blk2 \in 0..(Len(g.blocks) - 1))
    /\ [][(demo = "connect-lines" /\ pc # "main") =>
             LET old == Len(g.connections)
                 new == Len(g'.connections)
             IN  /\ old <= new /\ new <= old + 1
                 /\ \A k \in 1..old : g'.connections[k] = g.connections[k]
                 /\ new = old + 1 =>
                       /\ pc = "update"
                       /\ keyDurations["MouseButtonRight"] = 1
                       /\ g'.connections[new].blk1 = g'.selected
                       /\ BlockIn(g'.blocks[g'.connections[new].blk2 + 1],
                                  in.cx, in.cy)]_vars

\* block 0 was connected to block 1, then block 1 was selected and moved:
\* the connection is still the one recorded
C16_Witness ==
    /\ demo = "connect-lines"
    /\ pc = "draw"
    /\ frames = 3
    /\ in.keys = {"Right"}
    /\ clicks = 1
    /\ g.selected = 1
    /\ g.connections = <<[blk1 |-> 0, blk2 |-> 1]>>

=============================================================================
